---- MODULE Spec2Model ----
(***************************************************************************)
(* Model of the HackerOne disclosure bot's polling core.                   *)
(*                                                                         *)
(*   src/worker.py       main(): the long-running worker loop that polls   *)
(*                       hacktivity, de-duplicates through the in-memory   *)
(*                       set `seen` and posts each event to Slack.         *)
(*   src/poll/lambda.py  lambda_handler(): the scheduled poll that         *)
(*                       refreshes the CSRF token, fetches once and        *)
(*                       enqueues every fetched node.                      *)
(*                                                                         *)
(* Time is counted in minutes.  A step of the model is one blocking call   *)
(* of the program returning (or being interrupted by SIGINT).  Each cycle  *)
(* reads the wall clock once; `now` is the value that read returns, so the *)
(* time the blocking calls of a cycle took and any step of the clock are   *)
(* added when the sleep that ends the cycle returns.                       *)
(***************************************************************************)
EXTENDS Integers, Sequences, FiniteSets, TLC

VARIABLES
    pc,          \* position of the running entry point
    now,         \* what datetime.utcnow() returns when read next, in minutes
    cycleStart,  \* wall clock when `since` was computed in this cycle
    since,       \* local `since` of main() / lambda_handler()
    token,       \* session.headers["x-csrf-token"], NoToken when absent
    events,      \* local `events` (worker) / list being iterated (poll)
    idx,         \* position of the for loop in `events`
    seen,        \* local `seen` of main()
    calls,       \* history: session calls returned in this cycle
    log,         \* history: forward attempts made in this cycle
    forwards,    \* history: number of forward invocations per identifier
    delivered,   \* history: identifiers whose forward succeeded
    failedPrev,  \* history: identifiers whose forward failed last cycle
    failedNow,   \* history: identifiers whose forward failed this cycle
    cycle,       \* history: number of cycles started
    sigint       \* history: a KeyboardInterrupt has been delivered

vars == <<pc, now, cycleStart, since, token, events, idx, seen, calls, log,
          forwards, delivered, failedPrev, failedNow, cycle, sigint>>

----------------------------------------------------------------------------
(* Bounds of the model *)

MaxId == 2
MaxBatch == 2
MaxCycles == 2
StartTime == 74
MaxBack == 1
MaxAhead == 2

(* Program constants, in minutes *)

LookbackWorker == 15
LookbackPoll == 4
SleepInterval == 1

----------------------------------------------------------------------------
(* Data *)

Ids == 1..MaxId
\* the identifier of a node whose "report" member is null
NullReport == 0
Typenames == {"Disclosed", "Other"}
Nodes == [id : Ids \cup {NullReport}, typename : Typenames]
Batches == UNION {[1..n -> Nodes] : n \in 0..MaxBatch}

Statuses == {200, 403, 500, 503}
Bodies == {"json", "malformed", "nostructure"}
\* what the upstream answers to the POST.  Only a decodable body holds a
\* node list; the list is read only from an answer that passes
\* raise_for_status, so those carry every list and an error answer none or
\* a list of one node
Responses ==
    [connected : {TRUE}, status : {200}, marker : {FALSE},
     body : {"json"}, nodes : Batches]
    \cup [connected : {TRUE}, status : Statuses, marker : BOOLEAN,
          body : {"json"}, nodes : {b \in Batches : Len(b) =< 1}]
    \cup [connected : BOOLEAN, status : Statuses, marker : BOOLEAN,
          body : Bodies, nodes : {<<>>}]

\* value of the locals `since` before the first cycle assigns them
Unset == 0

NoToken == "none"
Tokens == {"tokA", "tokB"}
NoMeta == "absent"
Pages == [connected : BOOLEAN, status : Statuses, meta : Tokens \cup {NoMeta}]

ForwardResults == {"ok", "error", "interrupt"}

\* what lies between two reads of the wall clock beyond the sleep interval:
\* the time the calls of the cycle took and any step of the clock, back or
\* forward
ClockSteps == (0 - MaxBack)..MaxAhead

----------------------------------------------------------------------------
(* Pure parts of the program *)

\* datetime.isoformat() of a minute-resolution time: <<hours, minutes>>
isoformat(t) == <<t \div 60, t % 60>>

\* faulty variant: the window is fixed at process start
WindowStartFixed(t, lookback) == StartTime - lookback

\* since = datetime.utcnow() - timedelta(minutes=lookback)
WindowStart(t, lookback) == t - lookback

\* faulty variant: the status of the response is not checked
raise_for_statusNever(status) == FALSE

\* requests.Response.raise_for_status(): raises HTTPError for 4xx and 5xx
raise_for_status(status) == 400 =< status /\ status < 600

RECURSIVE SelectSeq2(_, _)
SelectSeq2(s, keep) ==
    IF s = <<>> THEN <<>>
    ELSE IF keep[Head(s).typename] THEN <<Head(s)>> \o SelectSeq2(Tail(s), keep)
    ELSE SelectSeq2(Tail(s), keep)

RECURSIVE ReverseSeq(_)
ReverseSeq(s) == IF s = <<>> THEN <<>> ELSE Append(ReverseSeq(Tail(s)), Head(s))

\* faulty variant: the kept nodes come out newest-last instead of as listed
FilterDisclosedReversed(nodes) ==
    ReverseSeq(SelectSeq2(nodes, [t \in Typenames |-> t = "Disclosed"]))

\* filter(lambda node: node["__typename"] == "Disclosed", nodes)
FilterDisclosed(nodes) ==
    SelectSeq2(nodes, [t \in Typenames |-> t = "Disclosed"])

\* fetch_hacktivity of the worker: POST, raise_for_status, decode, filter
fetch_hacktivity(resp) ==
    IF ~resp.connected
    THEN [exc |-> "ConnectionError", status |-> 0, marker |-> FALSE, nodes |-> <<>>]
    ELSE IF raise_for_status(resp.status)
    THEN [exc |-> "HTTPError", status |-> resp.status, marker |-> resp.marker,
          nodes |-> <<>>]
    ELSE IF resp.body # "json"
    THEN [exc |-> "DecodeError", status |-> resp.status, marker |-> resp.marker,
          nodes |-> <<>>]
    ELSE [exc |-> "none", status |-> resp.status, marker |-> resp.marker,
          nodes |-> FilterDisclosed(resp.nodes)]

\* fetch_hacktivity of the poll lambda: POST, raise_for_status, decode
poll_fetch_hacktivity(resp) ==
    IF ~resp.connected
    THEN [exc |-> "ConnectionError", status |-> 0, marker |-> FALSE, nodes |-> <<>>]
    ELSE IF raise_for_status(resp.status)
    THEN [exc |-> "HTTPError", status |-> resp.status, marker |-> resp.marker,
          nodes |-> <<>>]
    ELSE IF resp.body # "json"
    THEN [exc |-> "DecodeError", status |-> resp.status, marker |-> resp.marker,
          nodes |-> <<>>]
    ELSE [exc |-> "none", status |-> resp.status, marker |-> resp.marker,
          nodes |-> resp.nodes]

\* faulty variant: the header is dropped before the page is parsed
refresh_csrfDropFirst(page, tok) ==
    IF ~page.connected THEN [exc |-> "ConnectionError", token |-> tok]
    ELSE IF raise_for_status(page.status) THEN [exc |-> "HTTPError", token |-> tok]
    ELSE IF page.meta = NoMeta THEN [exc |-> "TypeError", token |-> NoToken]
    ELSE [exc |-> "none", token |-> page.meta]

\* faulty variant: the extracted token is not stored in the session headers
refresh_csrfNoStore(page, tok) ==
    IF ~page.connected THEN [exc |-> "ConnectionError", token |-> tok]
    ELSE IF raise_for_status(page.status) THEN [exc |-> "HTTPError", token |-> tok]
    ELSE IF page.meta = NoMeta THEN [exc |-> "TypeError", token |-> tok]
    ELSE [exc |-> "none", token |-> tok]

\* refresh_csrf: GET the landing page, raise_for_status, extract the meta
\* element's content, store it in the session headers
refresh_csrf(page, tok) ==
    IF ~page.connected THEN [exc |-> "ConnectionError", token |-> tok]
    ELSE IF raise_for_status(page.status) THEN [exc |-> "HTTPError", token |-> tok]
    ELSE IF page.meta = NoMeta THEN [exc |-> "TypeError", token |-> tok]
    ELSE [exc |-> "none", token |-> page.meta]

\* refresh_csrf of the poll lambda (same steps, on the invocation's session)
poll_refresh_csrf(page, tok) ==
    IF ~page.connected THEN [exc |-> "ConnectionError", token |-> tok]
    ELSE IF raise_for_status(page.status) THEN [exc |-> "HTTPError", token |-> tok]
    ELSE IF page.meta = NoMeta THEN [exc |-> "TypeError", token |-> tok]
    ELSE [exc |-> "none", token |-> page.meta]

\* faulty variant: the body marker is not looked at
IsCsrfExpiredStatusOnly(r) == r.exc = "HTTPError" /\ r.status = 500

\* the except clause of the first fetch: an HTTPError is a stale token iff
\* not (status_code != 500 or '"STANDARD_ERROR"' not in text)
IsCsrfExpired(r) ==
    r.exc = "HTTPError" /\ ~(r.status # 500 \/ ~r.marker)

\* faulty variant: the ledger is never consulted
HasSeenNever(id, s) == FALSE

\* report_id in seen
HasSeen(id, s) == id \in s

\* faulty variant: the ledger is rebuilt from the newest identifier
MarkSeenReplace(id, s) == {id}

\* seen.add(report_id)
MarkSeen(id, s) == s \cup {id}

\* MessageDeduplicationId=event.get("report", {}).get("_id"), for a node
\* whose report is an object
MessageDeduplicationId(event) == event.id

\* MessageGroupId="hacktivity"
MessageGroupId == "hacktivity"

\* faulty variant: a decode error is not caught and leaves main()
CatchAllButDecode(exc) ==
    IF exc = "KeyboardInterrupt" THEN "stopped"
    ELSE IF exc = "DecodeError" THEN "crashed"
    ELSE "reporting"

\* the handlers of the outer try: `except KeyboardInterrupt: break`, then a
\* bare `except:` that logs the failure
CatchAll(exc) ==
    IF exc = "KeyboardInterrupt" THEN "stopped" ELSE "reporting"

\* faulty variant: a stale-token error of the re-fetch is retried again
AfterRefetchRetryAgain(r) ==
    IF r.exc = "none" THEN "processing"
    ELSE IF IsCsrfExpired(r) THEN "refreshing"
    ELSE CatchAll(r.exc)

\* the second fetch_hacktivity(since), inside the except handler: any
\* exception it raises leaves the inner try and reaches the outer handlers
AfterRefetch(r) ==
    IF r.exc = "none" THEN "processing" ELSE CatchAll(r.exc)

\* faulty variant: the end of a cycle jumps back to the top of the loop
AfterCycleNoSleep == "idle"

\* where control goes when the try statement is left without a break: the
\* time.sleep(60) that ends every iteration of the while loop
AfterCycle == "sleeping"

\* history entry of a returned POST: the `since` variable and the token
\* header it carried, and how it ended
FetchCall(r) ==
    [op |-> "fetch", since |-> isoformat(since), csrf |-> token,
     result |-> IF r.exc = "none" THEN "ok" ELSE r.exc,
     status |-> r.status, marker |-> r.marker]

\* history entry of a returned GET of the landing page
RefreshCall(r) ==
    [op |-> "refresh", since |-> <<>>, csrf |-> token,
     result |-> IF r.exc = "none" THEN "ok" ELSE r.exc,
     status |-> 0, marker |-> FALSE]

----------------------------------------------------------------------------
(* Initial state: the process has just been started through one of the    *)
(* two polling entry points.                                              *)

Init ==
    /\ pc \in {"idle", "l_idle"}
    /\ now = StartTime
    /\ cycleStart = Unset
    /\ since = Unset
    /\ token = NoToken
    /\ events = <<>>
    /\ idx = 1
    /\ seen = {}
    /\ calls = <<>>
    /\ log = <<>>
    /\ forwards = [i \in Ids |-> 0]
    /\ delivered = {}
    /\ failedPrev = {}
    /\ failedNow = {}
    /\ cycle = 0
    /\ sigint = FALSE

----------------------------------------------------------------------------
(* The worker loop: src/worker.py main()                                   *)

\* top of the while loop: since = utcnow() - 15 minutes, first POST issued.
\* `events` and the loop position are dead here and are reset.
BeginCycle ==
    /\ pc = "idle"
    /\ cycle < MaxCycles
    /\ cycle' = cycle + 1
    /\ cycleStart' = now
    /\ since' = WindowStart(now, LookbackWorker)
    /\ events' = <<>>
    /\ idx' = 1
    /\ calls' = <<>>
    /\ log' = <<>>
    /\ failedPrev' = failedNow
    /\ failedNow' = {}
    /\ pc' = "fetching"
    /\ UNCHANGED <<now, token, seen, forwards, delivered, sigint>>

\* the first fetch_hacktivity(since) returns or raises
FetchReturn ==
    /\ pc = "fetching"
    /\ \E resp \in Responses :
         LET r == fetch_hacktivity(resp) IN
         /\ calls' = Append(calls, FetchCall(r))
         /\ events' = r.nodes
         /\ pc' = IF r.exc = "none" THEN "processing"
                  ELSE IF IsCsrfExpired(r) THEN "refreshing"
                  ELSE CatchAll(r.exc)
    /\ UNCHANGED <<now, cycleStart, since, token, idx, seen, log, forwards,
                   delivered, failedPrev, failedNow, cycle, sigint>>

\* refresh_csrf() in the except handler returns or raises
RefreshReturn ==
    /\ pc = "refreshing"
    /\ \E page \in Pages :
         LET r == refresh_csrf(page, token) IN
         /\ calls' = Append(calls, RefreshCall(r))
         /\ token' = r.token
         /\ pc' = IF r.exc = "none" THEN "refetching" ELSE CatchAll(r.exc)
    /\ UNCHANGED <<now, cycleStart, since, events, idx, seen, log, forwards,
                   delivered, failedPrev, failedNow, cycle, sigint>>

\* the second fetch_hacktivity(since) returns or raises
RefetchReturn ==
    /\ pc = "refetching"
    /\ \E resp \in Responses :
         LET r == fetch_hacktivity(resp) IN
         /\ calls' = Append(calls, FetchCall(r))
         /\ events' = r.nodes
         /\ pc' = AfterRefetch(r)
    /\ UNCHANGED <<now, cycleStart, since, token, idx, seen, log, forwards,
                   delivered, failedPrev, failedNow, cycle, sigint>>

\* one iteration of `for event in events`: the subscript that reads the
\* identifier (a TypeError when the report is null), the membership test, and
\* for an unseen identifier seen.add(report_id) followed by post_slack(event)
ProcessEvent ==
    /\ pc = "processing"
    /\ idx =< Len(events)
    /\ LET event == events[idx]
           report_id == event.id
       IN
       IF report_id = NullReport
       THEN /\ pc' = CatchAll("TypeError")
            /\ UNCHANGED <<events, idx, seen, calls, log, forwards, delivered,
                           failedNow, sigint>>
       ELSE IF HasSeen(report_id, seen)
       THEN /\ idx' = idx + 1
            /\ UNCHANGED <<pc, events, seen, calls, log, forwards, delivered,
                           failedNow, sigint>>
       ELSE \E result \in ForwardResults :
            /\ seen' = MarkSeen(report_id, seen)
            /\ forwards' = [forwards EXCEPT ![report_id] = @ + 1]
            /\ log' = IF result = "interrupt" THEN <<>>
                      ELSE Append(log, [id |-> report_id,
                                        typename |-> event.typename,
                                        result |-> result])
            /\ calls' = IF result = "interrupt" THEN <<>> ELSE calls
            /\ events' = IF result = "interrupt" THEN <<>> ELSE events
            /\ delivered' = IF result = "ok" THEN delivered \cup {report_id}
                            ELSE delivered
            /\ failedNow' = IF result = "error" THEN failedNow \cup {report_id}
                            ELSE failedNow
            /\ sigint' = (sigint \/ result = "interrupt")
            /\ idx' = IF result = "ok" THEN idx + 1
                      ELSE IF result = "interrupt" THEN 1
                      ELSE idx
            /\ pc' = IF result = "ok" THEN pc
                     ELSE IF result = "interrupt" THEN CatchAll("KeyboardInterrupt")
                     ELSE CatchAll("Exception")
    /\ UNCHANGED <<now, cycleStart, since, token, failedPrev, cycle>>

\* SIGINT after seen.add(report_id) and before post_slack is entered: the
\* identifier is in the ledger and no forward was invoked for it
InterruptBeforePost ==
    /\ pc = "processing"
    /\ idx =< Len(events)
    /\ events[idx].id # NullReport
    /\ ~HasSeen(events[idx].id, seen)
    /\ seen' = MarkSeen(events[idx].id, seen)
    /\ sigint' = TRUE
    /\ pc' = CatchAll("KeyboardInterrupt")
    /\ events' = <<>>
    /\ idx' = 1
    /\ calls' = <<>>
    /\ log' = <<>>
    /\ UNCHANGED <<now, cycleStart, since, token, forwards, delivered,
                   failedPrev, failedNow, cycle>>

\* the for loop is exhausted: control falls out of the try to time.sleep
BatchDone ==
    /\ pc = "processing"
    /\ idx > Len(events)
    /\ pc' = AfterCycle
    /\ UNCHANGED <<now, cycleStart, since, token, events, idx, seen, calls, log,
                   forwards, delivered, failedPrev, failedNow, cycle, sigint>>

\* logging.exception("execution failed") in the bare except
ReportFailure ==
    /\ pc = "reporting"
    /\ pc' = AfterCycle
    /\ UNCHANGED <<now, cycleStart, since, token, events, idx, seen, calls, log,
                   forwards, delivered, failedPrev, failedNow, cycle, sigint>>

\* time.sleep(60) returns; the next read of the wall clock is later by the
\* interval and by what else went by since the last read.  The iteration is
\* over: its list of events is not read again and its history is closed.
Sleep ==
    /\ pc = "sleeping"
    /\ \E d \in ClockSteps : now' = now + SleepInterval + d
    /\ pc' = "idle"
    /\ events' = <<>>
    /\ idx' = 1
    /\ calls' = <<>>
    /\ log' = <<>>
    /\ UNCHANGED <<cycleStart, since, token, seen, forwards, delivered,
                   failedPrev, failedNow, cycle, sigint>>

\* SIGINT while control is inside the try block.  When the loop is left the
\* working state of the cycle is released; the ledger is kept for inspection.
InterruptInTry ==
    /\ pc \in {"idle", "fetching", "refreshing", "refetching", "processing"}
    /\ sigint' = TRUE
    /\ pc' = CatchAll("KeyboardInterrupt")
    /\ events' = <<>>
    /\ idx' = 1
    /\ calls' = <<>>
    /\ log' = <<>>
    /\ UNCHANGED <<now, cycleStart, since, token, seen, forwards, delivered,
                   failedPrev, failedNow, cycle>>

\* SIGINT while control is in the bare except handler, in time.sleep(60), at
\* the jump back to `while True` or before the loop is entered: no handler
\* encloses these, the KeyboardInterrupt leaves main()
InterruptOutsideTry ==
    /\ pc \in {"idle", "reporting", "sleeping"}
    /\ sigint' = TRUE
    /\ pc' = "crashed"
    /\ events' = <<>>
    /\ idx' = 1
    /\ calls' = <<>>
    /\ log' = <<>>
    /\ UNCHANGED <<now, cycleStart, since, token, seen, forwards, delivered,
                   failedPrev, failedNow, cycle>>

----------------------------------------------------------------------------
(* The scheduled poll: src/poll/lambda.py lambda_handler()                 *)

\* a scheduled invocation starts: a fresh requests.Session, refresh issued
LambdaInvoke ==
    /\ pc = "l_idle"
    /\ cycle < MaxCycles
    /\ cycle' = cycle + 1
    /\ token' = NoToken
    /\ events' = <<>>
    /\ idx' = 1
    /\ calls' = <<>>
    /\ log' = <<>>
    /\ pc' = "l_refreshing"
    /\ UNCHANGED <<now, cycleStart, since, seen, forwards, delivered,
                   failedPrev, failedNow, sigint>>

\* refresh_csrf(session) returns or raises; on return since = utcnow() - 4
\* minutes and the POST is issued
LambdaRefreshReturn ==
    /\ pc = "l_refreshing"
    /\ \E page \in Pages :
         LET r == poll_refresh_csrf(page, token) IN
         /\ calls' = Append(calls, RefreshCall(r))
         /\ token' = r.token
         /\ IF r.exc = "none"
            THEN /\ cycleStart' = now
                 /\ since' = WindowStart(now, LookbackPoll)
                 /\ pc' = "l_fetching"
            ELSE /\ pc' = "l_failed"
                 /\ UNCHANGED <<cycleStart, since>>
    /\ UNCHANGED <<now, events, idx, seen, log, forwards, delivered, failedPrev,
                   failedNow, cycle, sigint>>

\* fetch_hacktivity(session, since) returns or raises
LambdaFetchReturn ==
    /\ pc = "l_fetching"
    /\ \E resp \in Responses :
         LET r == poll_fetch_hacktivity(resp) IN
         /\ calls' = Append(calls, FetchCall(r))
         /\ events' = r.nodes
         /\ pc' = IF r.exc = "none" THEN "l_sending" ELSE "l_failed"
    /\ UNCHANGED <<now, cycleStart, since, token, idx, seen, log, forwards,
                   delivered, failedPrev, failedNow, cycle, sigint>>

\* one iteration of the for loop: the arguments are evaluated (None.get
\* raises AttributeError when the report is null, before any call), then
\* sqs.send_message(...) returns or raises
LambdaSend ==
    /\ pc = "l_sending"
    /\ idx =< Len(events)
    /\ IF events[idx].id = NullReport
       THEN /\ pc' = "l_failed"
            /\ UNCHANGED <<log, idx>>
       ELSE \E result \in {"ok", "error"} :
            /\ log' = Append(log, [id |-> events[idx].id,
                                   typename |-> events[idx].typename,
                                   dedup |-> MessageDeduplicationId(events[idx]),
                                   group |-> MessageGroupId,
                                   result |-> result])
            /\ idx' = IF result = "ok" THEN idx + 1 ELSE idx
            /\ pc' = IF result = "ok" THEN pc ELSE "l_failed"
    /\ UNCHANGED <<now, cycleStart, since, token, events, seen, calls, forwards,
                   delivered, failedPrev, failedNow, cycle, sigint>>

\* the for loop is exhausted: the handler returns
LambdaReturn ==
    /\ pc = "l_sending"
    /\ idx > Len(events)
    /\ pc' = "l_done"
    /\ UNCHANGED <<now, cycleStart, since, token, events, idx, seen, calls, log,
                   forwards, delivered, failedPrev, failedNow, cycle, sigint>>

\* the schedule fires again after the invocation ended: the session of the
\* `with` block and the locals of the handler are gone
LambdaSchedule ==
    /\ pc \in {"l_done", "l_failed"}
    /\ \E d \in ClockSteps : now' = now + SleepInterval + d
    /\ pc' = "l_idle"
    /\ token' = NoToken
    /\ events' = <<>>
    /\ idx' = 1
    /\ calls' = <<>>
    /\ log' = <<>>
    /\ UNCHANGED <<cycleStart, since, seen, forwards, delivered, failedPrev,
                   failedNow, cycle, sigint>>

----------------------------------------------------------------------------

Next ==
    \/ BeginCycle
    \/ FetchReturn
    \/ RefreshReturn
    \/ RefetchReturn
    \/ ProcessEvent
    \/ InterruptBeforePost
    \/ BatchDone
    \/ ReportFailure
    \/ Sleep
    \/ InterruptInTry
    \/ InterruptOutsideTry
    \/ LambdaInvoke
    \/ LambdaRefreshReturn
    \/ LambdaFetchReturn
    \/ LambdaSend
    \/ LambdaReturn
    \/ LambdaSchedule

Spec == Init /\ [][Next]_vars

----------------------------------------------------------------------------
(* Helpers of the properties *)

WorkerRunning ==
    {"idle", "fetching", "refreshing", "refetching", "processing",
     "reporting", "sleeping"}

PollPcs == {"l_idle", "l_refreshing", "l_fetching", "l_sending", "l_done", "l_failed"}

\* the cycle is over (or gave up) and the loop has not been cancelled
CycleOver == pc \in {"reporting", "sleeping", "idle"}

\* the batch is being processed, or the cycle is over
ProcessingOrOver == pc = "processing" \/ CycleOver

\* a fetch of this cycle returned a batch
FetchOk == \E i \in DOMAIN calls : calls[i].op = "fetch" /\ calls[i].result = "ok"

\* the call failed with status 500 and the "STANDARD_ERROR" marker in the body
CsrfFailure(c) ==
    c.op = "fetch" /\ c.result = "HTTPError" /\ c.status = 500 /\ c.marker

LoggedIds == {log[i].id : i \in DOMAIN log}

FetchedIds == {events[i].id : i \in DOMAIN events}

\* the time an ISO string denotes, in minutes
IsoMinutes(s) == s[1] * 60 + s[2]

\* order of two ISO strings
IsoLess(a, b) == a[1] < b[1] \/ (a[1] = b[1] /\ a[2] < b[2])

----------------------------------------------------------------------------
(* C1: over any sequence of cycles, overlapping windows, fetch failures and *)
(* forward failures, post_slack is invoked at most once per identifier in   *)
(* the lifetime of the worker process.                                      *)
C1_ForwardAtMostOnce == \A i \in Ids : forwards[i] =< 1

\* an identifier delivered in an earlier cycle was fetched again and skipped
C1_Witness ==
    /\ pc = "processing"
    /\ cycle >= 2
    /\ idx = 2
    /\ events[1].id \in delivered
    /\ log = <<>>
    /\ forwards[events[1].id] = 1

(* C2: if the forward of X failed in cycle N and the fetch of cycle N+1     *)
(* returns X again, post_slack is attempted again for X in cycle N+1.       *)
C2_FailedDeliveryReeligible ==
    (pc = "sleeping" /\ FetchOk)
        => \A x \in failedPrev : x \in FetchedIds => x \in LoggedIds

(* C3: an error raised while processing one event of a fetched batch does   *)
(* not keep the later events of the batch from being processed in the same  *)
(* cycle: when the cycle ends, no event after the failing one is left.      *)
C3_CycleIsolation ==
    (pc = "sleeping" /\ FetchOk) => idx >= Len(events)

(* C4: when the first fetch of a cycle fails with status 500 and the        *)
(* "STANDARD_ERROR" marker, the cycle performs exactly one refresh_csrf     *)
(* and, if it succeeded, exactly one re-fetch; when the refresh or the      *)
(* re-fetch fails nothing more is fetched or refreshed and the cycle gives  *)
(* up.                                                                      *)
C4_RetryOnAuthExpiry ==
    (pc \in WorkerRunning /\ Len(calls) >= 1 /\ CsrfFailure(calls[1])) =>
        /\ Len(calls) =< 3
        /\ Len(calls) = 1 => pc = "refreshing"
        /\ Len(calls) >= 2 => calls[2].op = "refresh"
        /\ (Len(calls) = 2 /\ calls[2].result = "ok") => pc = "refetching"
        /\ (Len(calls) = 2 /\ calls[2].result # "ok") => CycleOver
        /\ Len(calls) = 3 =>
              /\ calls[2].result = "ok"
              /\ calls[3].op = "fetch"
              /\ calls[3].result # "ok" => CycleOver
              /\ calls[3].result = "ok" => ProcessingOrOver

\* the re-fetch failed with the stale-token error again and the cycle gave up
C4_Witness ==
    /\ pc = "sleeping"
    /\ Len(calls) = 3
    /\ CsrfFailure(calls[1])
    /\ calls[2].op = "refresh" /\ calls[2].result = "ok"
    /\ CsrfFailure(calls[3])

(* C5: a first fetch failing with anything but (status 500 and the marker), *)
(* a decode or structure error included, triggers no refresh and no         *)
(* re-fetch: the cycle ends at once and goes to sleep.                      *)
C5_NoRetryOnOtherErrors ==
    (pc \in WorkerRunning /\ Len(calls) >= 1 /\ calls[1].op = "fetch"
        /\ calls[1].result # "ok" /\ ~CsrfFailure(calls[1])) =>
        /\ Len(calls) = 1
        /\ CycleOver

\* status 500 without the marker: the cycle went to sleep after one fetch
C5_Witness ==
    /\ pc = "sleeping"
    /\ Len(calls) = 1
    /\ calls[1].op = "fetch"
    /\ calls[1].result = "HTTPError"
    /\ calls[1].status = 500
    /\ ~calls[1].marker

(* C6: in both entry points only nodes whose __typename is "Disclosed" are  *)
(* passed to the forwarder, and only their identifiers enter the ledger.    *)
C6_FilterCorrectness == \A i \in DOMAIN log : log[i].typename = "Disclosed"

(* C7: no failure inside a cycle ends the worker loop: after any error the  *)
(* loop reports, sleeps and starts the next cycle; it leaves its running    *)
(* states only in a step that delivers a KeyboardInterrupt.                 *)
C7_OnlyCancellationStops ==
    [][(pc \in WorkerRunning /\ ~sigint') =>
          /\ pc' \in WorkerRunning
          /\ pc = "reporting" => pc' = "sleeping"
          /\ pc = "sleeping" => pc' = "idle"]_vars

\* a forward failed in the first cycle, and the loop slept and has issued
\* the fetch of the second cycle
C7_Witness ==
    /\ pc = "fetching"
    /\ ~sigint
    /\ cycle = 2
    /\ failedPrev # {}

(* C8: a KeyboardInterrupt received in any state of the worker loop makes   *)
(* main leave the loop through `break` and return normally.                 *)
C8_CleanStop == sigint => pc = "stopped"

(* C9: an identifier enters the ledger only after its forward succeeded:    *)
(* every identifier in `seen` has had a successful forward.                 *)
C9_LedgerAfterSuccess == seen \subseteq delivered

(* C10: in every cycle the `since` sent in the query is the wall clock read *)
(* in that cycle minus the lookback; it is computed anew in each cycle, so  *)
(* a cycle that starts at a later time sends a later `since`.               *)
C10_WindowMonotonic ==
    /\ [](\A i \in DOMAIN calls :
            calls[i].op = "fetch" =>
               IsoMinutes(calls[i].since) =
                  cycleStart - (IF pc \in PollPcs THEN LookbackPoll
                                ELSE LookbackWorker))
    /\ [][(pc \in {"idle", "l_refreshing"} /\ pc' \in {"fetching", "l_fetching"}) =>
             /\ cycleStart' = now
             /\ since' = now - (IF pc = "idle" THEN LookbackWorker
                                ELSE LookbackPoll)
             /\ (since # Unset /\ cycleStart' > cycleStart) =>
                   IsoLess(isoformat(since), isoformat(since'))]_vars

\* a second cycle started later than the first and sent its own window start
C10_Witness ==
    /\ cycle >= 2
    /\ cycleStart > StartTime
    /\ Len(calls) >= 1
    /\ calls[1].op = "fetch"
    /\ calls[1].since = isoformat(cycleStart - LookbackWorker)

(* C11: every cycle of the worker loop that is not cancelled ends in exactly *)
(* one sleep of the fixed interval before the next cycle's fetch begins,     *)
(* however the cycle ended; a cycle starts only when the previous cycle's    *)
(* fetch, processing and sleep are all over.                                 *)
C11_OneSleepPerCycle ==
    [][(pc \in WorkerRunning /\ pc' \in WorkerRunning) =>
          /\ pc' = "fetching" => pc = "idle"
          /\ pc' = "idle" =>
                (pc = "sleeping" /\ \E d \in ClockSteps : now' = now + SleepInterval + d)
          /\ pc' = "sleeping" => pc \in {"processing", "reporting"}
          /\ pc = "idle" => pc' = "fetching"
          /\ pc = "sleeping" => pc' = "idle"
          /\ pc \in {"processing", "reporting"} =>
                pc' \in {"processing", "reporting", "sleeping"}
          /\ pc \in {"fetching", "refreshing", "refetching"} =>
                pc' \notin {"idle", "sleeping", "fetching"}]_vars

\* a first cycle that forwarded nothing has slept and the second fetch is issued
C11_Witness ==
    /\ pc = "fetching"
    /\ cycle = 2
    /\ failedPrev = {}
    /\ seen = {}
    /\ now > StartTime

(* C12: authentication precedes fetching: no fetch POST is sent while the   *)
(* session holds no x-csrf-token.                                           *)
C12_TokenBeforeFetch ==
    \A i \in DOMAIN calls : calls[i].op = "fetch" => calls[i].csrf # NoToken

(* C12 as amended: a fetch POST goes out without a token only as the first  *)
(* fetch of a worker cycle while no refresh has succeeded yet in the        *)
(* process; the re-fetch of the retry path and every fetch of the poll      *)
(* lambda carry a token obtained by a successful refresh.                   *)
C12_TokenAfterRefresh ==
    /\ pc \in PollPcs => C12_TokenBeforeFetch
    /\ pc \in WorkerRunning =>
          \A i \in DOMAIN calls :
             (calls[i].op = "fetch" /\ calls[i].csrf = NoToken) =>
                /\ i = 1
                /\ \/ token = NoToken
                   \/ (Len(calls) >= 2 /\ calls[2].op = "refresh"
                         /\ calls[2].result = "ok" /\ calls[2].csrf = NoToken)

\* the first fetch went out without a token, the re-fetch carried one
C12_Witness ==
    /\ pc = "processing"
    /\ Len(calls) = 3
    /\ calls[1].csrf = NoToken
    /\ calls[3].op = "fetch"
    /\ calls[3].csrf \in Tokens

(* C13: when the identifier of the event at hand is already in the ledger,  *)
(* processing it invokes no forward, leaves the ledger and the session      *)
(* unchanged and moves on to the next event of the batch.                   *)
C13_SkipHasNoSideEffect ==
    [][(/\ pc = "processing"
        /\ idx =< Len(events)
        /\ events[idx].id \in seen
        /\ sigint' = sigint) =>
          /\ pc' = "processing"
          /\ idx' = idx + 1
          /\ UNCHANGED <<seen, token, log, forwards, delivered, events, calls,
                         failedNow, failedPrev, since, now>>]_vars

\* the second event of a batch repeated the first one and was skipped
C13_Witness ==
    /\ pc = "processing"
    /\ idx = 3
    /\ events[1].id = events[2].id
    /\ Len(log) = 1
    /\ seen = {events[1].id}

RECURSIVE IsSubseq(_, _)
\* a is b with some elements left out, the rest in b's order
IsSubseq(a, b) ==
    IF a = <<>> THEN TRUE
    ELSE IF b = <<>> THEN FALSE
    ELSE IF Head(a) = Head(b) THEN IsSubseq(Tail(a), Tail(b))
    ELSE IsSubseq(a, Tail(b))

\* the nodes for which a forward was attempted in this cycle, in order
LogNodes == [i \in DOMAIN log |-> [id |-> log[i].id, typename |-> log[i].typename]]

\* the worker's filter hands on the "Disclosed" nodes of every upstream
\* list in the order the list has them
FilterKeepsOrder ==
    \A b \in Batches :
       /\ IsSubseq(FilterDisclosed(b), b)
       /\ Len(FilterDisclosed(b)) =
             Cardinality({i \in DOMAIN b : b[i].typename = "Disclosed"})

(* C14: within one cycle the forward attempts follow the order in which the *)
(* upstream response lists the nodes: the filter keeps that order and the   *)
(* attempted nodes are a subsequence of the fetched list, never re-sorted.  *)
C14_OrderPreserved ==
    /\ FilterKeepsOrder
    /\ (FetchOk /\ pc \in WorkerRunning \cup PollPcs) => IsSubseq(LogNodes, events)

\* two events with different identifiers fetched and forwarded as listed
C14_Witness ==
    /\ pc = "processing"
    /\ idx = 3
    /\ Len(log) = 2
    /\ log[1].id = events[1].id
    /\ log[2].id = events[2].id
    /\ events[1].id # events[2].id

\* no fetch of this cycle was answered with a decodable success
FetchFailed ==
    \A i \in DOMAIN calls :
       calls[i].op = "fetch" =>
          (calls[i].result # "ok" \/ calls[i].status >= 400)

(* C15: a cycle whose fetch fails (first attempt, refresh or re-fetch)      *)
(* forwards no event and leaves the ledger as it was when the cycle began.  *)
C15_FailedFetchLeavesLedger ==
    [][(pc' \in WorkerRunning /\ FetchFailed') =>
          /\ log' = <<>>
          /\ UNCHANGED <<seen, forwards, delivered>>]_vars

\* the retry path failed in the second cycle: nothing was forwarded and the
\* ledger of the first cycle is as it was
C15_Witness ==
    /\ pc = "sleeping"
    /\ cycle = 2
    /\ Len(calls) = 3
    /\ FetchFailed
    /\ log = <<>>
    /\ seen # {}

(* C16: in the worker loop the x-csrf-token header is written only by      *)
(* refresh_csrf, and refresh_csrf is invoked only right after a fetch that  *)
(* failed with status 500 and the "STANDARD_ERROR" marker; every other step *)
(* leaves the token as it was.                                              *)
C16_TokenSingleWriter ==
    [][(pc \in WorkerRunning) =>
          /\ (token' # token =>
                /\ pc = "refreshing"
                /\ calls' = Append(calls, calls'[Len(calls')])
                /\ calls'[Len(calls')].op = "refresh"
                /\ calls'[Len(calls')].result = "ok")
          /\ ((pc' = "refreshing" /\ pc # "refreshing") =>
                /\ pc = "fetching"
                /\ calls' # <<>>
                /\ CsrfFailure(calls'[Len(calls')]))]_vars

\* the token written by the refresh of the first cycle went through a second
\* cycle whose fetch failed for another reason
C16_Witness ==
    /\ pc = "sleeping"
    /\ cycle = 2
    /\ token \in Tokens
    /\ Len(calls) = 1
    /\ calls[1].result = "HTTPError"
    /\ calls[1].status = 500
    /\ ~calls[1].marker
    /\ calls[1].csrf = token

(* C17: the ledger only grows: no step of the worker loop, failed cycles   *)
(* and failed forwards included, removes an identifier from it.            *)
C17_LedgerMonotonic == [][seen \subseteq seen']_vars

\* the ledger holds two identifiers, one of them from a failed forward of the
\* first cycle, and the second cycle failed at its fetch
C17_Witness ==
    /\ pc = "reporting"
    /\ cycle = 2
    /\ FetchFailed
    /\ Cardinality(seen) >= 2
    /\ failedPrev # {}

(* C18: a refresh_csrf that fails (landing page not retrieved, or the       *)
(* csrf-token meta element absent) leaves the x-csrf-token header as it was *)
(* before the call, set or not; the header is replaced only by a call that  *)
(* retrieved the page and extracted the token.                              *)
C18_FailedRefreshKeepsToken ==
    [][(pc \in {"refreshing", "l_refreshing"} /\ Len(calls') = Len(calls) + 1) =>
          /\ calls'[Len(calls')].op = "refresh"
          /\ (calls'[Len(calls')].result # "ok" => token' = token)]_vars

\* a refresh found no meta element while the session held a token of an
\* earlier cycle, and the session still holds that token
C18_Witness ==
    /\ pc = "reporting"
    /\ Len(calls) = 2
    /\ calls[2].op = "refresh"
    /\ calls[2].result = "TypeError"
    /\ calls[2].csrf \in Tokens
    /\ token = calls[2].csrf

(* C19: an invocation of the poll lambda_handler refreshes the token, then *)
(* fetches once, then enqueues: no message is sent when the refresh or the  *)
(* fetch failed; otherwise send_message is called once per fetched node, in *)
(* upstream order, with the node's report._id as de-duplication key and the *)
(* group key "hacktivity", and an invocation that fetched ends early only   *)
(* by a failing send, with every later node unsent.                         *)
C19_PollSequence ==
    pc \in PollPcs =>
       /\ Len(calls) =< 2
       /\ (calls # <<>> => calls[1].op = "refresh")
       /\ (Len(calls) = 2 => calls[1].result = "ok" /\ calls[2].op = "fetch")
       /\ (log # <<>> => Len(calls) = 2 /\ calls[2].result = "ok")
       /\ Len(log) =< Len(events)
       /\ \A i \in DOMAIN log :
             /\ log[i].id = events[i].id
             /\ log[i].typename = events[i].typename
             /\ log[i].dedup = events[i].id
             /\ log[i].group = "hacktivity"
             /\ (log[i].result = "error" => i = Len(log) /\ pc = "l_failed")
       /\ (pc = "l_sending" => Len(log) = idx - 1)
       /\ (pc = "l_done" =>
              /\ Len(log) = Len(events)
              /\ \A i \in DOMAIN log : log[i].result = "ok")
       /\ ((pc = "l_failed" /\ FetchOk) =>
              /\ log # <<>>
              /\ log[Len(log)].result = "error")

====
